---- MODULE Spec2Model ----
(***************************************************************************)
(* Model of src/main.py: the IndependentMovements monitor, the concurrent  *)
(* price fetch (get_last_price / prices under asyncio.run) and the endless *)
(* loop of the __main__ block.                                             *)
(*                                                                         *)
(* Arithmetic.  The program computes percentages in floating point.  The   *)
(* model keeps them exact: a percentage is an integer number of 1/Unit     *)
(* percent, and the quotes are chosen so that every division of the        *)
(* program is exact in these units.  Times are whole seconds.              *)
(***************************************************************************)
EXTENDS Integers, Sequences, FiniteSets, TLC

(* ------------------------------ bounds -------------------------------- *)

\* number of iterations of the endless loop that are explored
MaxCalls == 3

\* the wall clock is explored up to this many seconds after construction
MaxClock == 5401

(* --------------------------- program constants ------------------------ *)

\* time_period passed to the constructor (main.py line 97)
DefaultTimePeriod == 3600

\* Python's None where a price is expected; the quotes are never negative
None == -1

\* no exception has left the program
NoError == "NoError"

influence_symbol == "BTCUSDT"
target_symbol == "ETHUSDT"
symbols == <<influence_symbol, target_symbol>>

\* One percent, in model units.  Every non-zero quote divides Unit, and
\* Unit / quote is even, so percentage changes and half of them are whole.
Unit == 2 * 100 * 101

\* max_independent_change = 1.0 (percent) passed to the constructor, line 97
DefaultMaxChange == 1 * Unit

\* The prices the quote service may answer with: float(price_json['price']).
Quotes == {0, 100, 101}

\* The fitted linear models ols.pickle may hold: predict(x) = num/den * x + intercept.
\* The second one is 0.5 x + 0.1.
Predictors ==
    { [num |-> 1, den |-> 1, intercept |-> 0],
      [num |-> 1, den |-> 2, intercept |-> Unit \div 10] }

\* Amounts by which the wall clock may advance between two steps.
TickSteps == {DefaultTimePeriod \div 2, DefaultTimePeriod + 1}

\* print() has written nothing
NoAlert == <<>>

\* price_dict before the first assignment of line 108
NoDict == <<>>

VARIABLES
    ols,                        \* the unpickled model (line 14)
    time_period,                \* self.time_period
    max_change,                 \* self.max_change
    last_influence_price,       \* self.last_influence_price
    last_target_price,          \* self.last_target_price
    reference_time,             \* self.reference_time
    total_independent_change,   \* self.total_independent_change
    clock,                      \* time.time(), seconds since construction
    pc,                         \* position of the main thread
    tasks,                      \* the tasks of the running asyncio.run, in creation order
    finished,                   \* indices of tasks, in the order they completed
    served,                     \* price the quote service answered, per symbol, this iteration
    price_dict,                 \* price_dict of the __main__ loop
    printed,                    \* what the last check_independent_movements call printed
    branch,                     \* the path the last check_independent_movements call took
    error,                      \* the exception that left the program, if any
    nfetch,                     \* iterations started
    ncalls                      \* check_independent_movements calls completed

monitor_vars == <<time_period, max_change, last_influence_price, last_target_price,
                  reference_time, total_independent_change>>

vars == <<ols, time_period, max_change, last_influence_price, last_target_price,
          reference_time, total_independent_change, clock, pc, tasks, finished,
          served, price_dict, printed, branch, error, nfetch, ncalls>>

(* ------------------------------ helpers ------------------------------- *)

Abs(x) == IF x < 0 THEN -x ELSE x

\* Python truthiness of a price held in the monitor: None and 0 are false.
Truthy(x) == x # None /\ x # 0

\* line 38: all((self.last_influence_price, self.last_target_price))
NotFirstRequest(last_influence, last_target) ==
    Truthy(last_influence) /\ Truthy(last_target)

\* lines 41-42: (price - last) / last * 100, in model units
RelativeChange(price, last) == ((price - last) * 100 * Unit) \div last

\* the prediction leaves out the intercept of the fitted model
PredictWithoutIntercept(model, x) == (model.num * x) \div model.den

\* line 45: ols.predict(np.array([x]).reshape(-1, 1))[0][0]
Predict(model, x) == (model.num * x) \div model.den + model.intercept

\* line 45: target_independent_change
IndependentChange(model, influence_price, target_price, last_influence, last_target) ==
    RelativeChange(target_price, last_target)
        - Predict(model, RelativeChange(influence_price, last_influence))

\* the window is renewed on a breach only, never on expiry
RenewConditionThresholdOnly(total, time_passed, max, period) ==
    Abs(total) > max

\* the window is renewed when exactly one of the two conditions holds
RenewConditionExclusive(total, time_passed, max, period) ==
    (Abs(total) > max) # (time_passed > period)

\* the window is renewed at the threshold and at the end of the period already
RenewConditionInclusive(total, time_passed, max, period) ==
    Abs(total) >= max \/ time_passed >= period

\* the window is renewed on expiry only, never on a breach
RenewConditionExpiryOnly(total, time_passed, max, period) ==
    time_passed > period

\* line 53: the condition to renew monitoring
RenewCondition(total, time_passed, max, period) ==
    Abs(total) > max \/ time_passed > period

\* the message is printed at the threshold already
PrintConditionInclusive(total, max) == Abs(total) >= max

\* line 56: the condition for printing the message
PrintCondition(total, max) == Abs(total) > max

\* the message is formatted after the reset, from the renewed fields
MessageAfterReset(time_passed, total) ==
    [minutes |-> [num |-> 0, den |-> 60], change |-> 0]

\* lines 57-58: the two printed lines; the time is printed in minutes, time_passed / 60
Message(time_passed, total) ==
    [minutes |-> [num |-> time_passed, den |-> 60], change |-> total]

(* ---------------------------- construction ---------------------------- *)

\* lines 24-30 and 97: the monitor after IndependentMovements(3600, 1.0)
Init ==
    /\ ols \in Predictors
    /\ time_period = DefaultTimePeriod
    /\ max_change = DefaultMaxChange
    /\ last_influence_price = None
    /\ last_target_price = None
    /\ clock = 0
    /\ reference_time = 0
    /\ total_independent_change = 0
    /\ pc = "loop"
    /\ tasks = <<>>
    /\ finished = <<>>
    /\ served = [s \in {} |-> None]
    /\ price_dict = NoDict
    /\ printed = NoAlert
    /\ branch = "none"
    /\ error = NoError
    /\ nfetch = 0
    /\ ncalls = 0

\* The arguments a caller may pass to the constructor, which takes any numbers:
\* those of line 97, and non-positive ones.
ConstructorArguments ==
    { <<DefaultTimePeriod, DefaultMaxChange>>,
      <<0, DefaultMaxChange>>,
      <<DefaultTimePeriod, 0>>,
      <<-1, -DefaultMaxChange>> }

\* lines 24-30: IndependentMovements(time_period, max_independent_change) for
\* any arguments; the constructor stores them as they are and raises nothing
InitAnyArguments ==
    /\ ols \in Predictors
    /\ \E args \in ConstructorArguments :
          /\ time_period = args[1]
          /\ max_change = args[2]
    /\ last_influence_price = None
    /\ last_target_price = None
    /\ clock = 0
    /\ reference_time = 0
    /\ total_independent_change = 0
    /\ pc = "loop"
    /\ tasks = <<>>
    /\ finished = <<>>
    /\ served = [s \in {} |-> None]
    /\ price_dict = NoDict
    /\ printed = NoAlert
    /\ branch = "none"
    /\ error = NoError
    /\ nfetch = 0
    /\ ncalls = 0

(* ------------------------- the monitor's step ------------------------- *)

\* the previous prices are set from the wrong arguments
SetPreviousPricesSwapped(influence_price, target_price) ==
    /\ last_influence_price' = target_price
    /\ last_target_price' = influence_price

\* only the influence price is recorded
SetPreviousPricesInfluenceOnly(influence_price, target_price) ==
    /\ last_influence_price' = influence_price
    /\ UNCHANGED last_target_price

\* lines 64-66: set (for the 1st request) or reset previous prices to the current ones
SetPreviousPrices(influence_price, target_price) ==
    /\ last_influence_price' = influence_price
    /\ last_target_price' = target_price

\* lines 32-66, the whole call, with now = time.time() read at line 49
check_independent_movements(influence_price, target_price) ==
    /\ IF NotFirstRequest(last_influence_price, last_target_price)
       THEN LET total == total_independent_change
                            + IndependentChange(ols, influence_price, target_price,
                                                last_influence_price, last_target_price)
                now == clock
                time_passed == now - reference_time
            IN  IF RenewCondition(total, time_passed, max_change, time_period)
                THEN /\ printed' = IF PrintCondition(total, max_change)
                                   THEN <<Message(time_passed, total)>>
                                   ELSE NoAlert
                     /\ reference_time' = now
                     /\ total_independent_change' = 0
                     /\ branch' = "renew"
                ELSE /\ total_independent_change' = total
                     /\ printed' = NoAlert
                     /\ branch' = "accumulate"
                     /\ UNCHANGED reference_time
       ELSE /\ printed' = NoAlert
            /\ branch' = IF last_influence_price = None \/ last_target_price = None
                         THEN "first" ELSE "zero"
            /\ UNCHANGED <<reference_time, total_independent_change>>
    /\ SetPreviousPrices(influence_price, target_price)
    /\ UNCHANGED <<time_period, max_change>>

(* ------------------------------ the fetch ----------------------------- *)

Running == {"scheduled", "requesting", "reading"}

\* line 91: asyncio.create_task(get_last_price(symbol))
NewTask(symbol) == [symbol |-> symbol, state |-> "scheduled", price |-> None]

\* line 82: return symbol, float(price_json['price'])
TaskResult(task) == <<task.symbol, task.price>>

\* the prices are paired with the symbols in the order the tasks completed
GatherResultsAsCompleted(ts) ==
    [k \in DOMAIN finished |-> <<symbols[k], ts[finished[k]].price>>]

\* line 93: gather gives the results in the order of its arguments
GatherResults(ts) == [i \in DOMAIN ts |-> TaskResult(ts[i])]

\* line 94: dict(results); a later pair with the same key wins
Dict(results) ==
    [k \in {results[i][1] : i \in DOMAIN results} |->
        LET last == CHOOSE i \in DOMAIN results :
                        /\ results[i][1] = k
                        /\ \A j \in DOMAIN results : results[j][1] = k => j <= i
        IN  results[last][2]]

\* line 108: asyncio.run(prices(symbols)) is entered
StartFetch ==
    /\ pc = "loop"
    /\ nfetch < MaxCalls
    /\ pc' = "create"
    /\ tasks' = <<>>
    /\ finished' = <<>>
    /\ served' = [s \in {} |-> None]
    /\ nfetch' = nfetch + 1
    /\ UNCHANGED <<ols, monitor_vars, clock, price_dict, printed, branch, error, ncalls>>

\* lines 89-91: one task per symbol; no task runs before prices awaits (line 93)
CreateTask ==
    /\ pc = "create"
    /\ Len(tasks) < Len(symbols)
    /\ tasks' = Append(tasks, NewTask(symbols[Len(tasks) + 1]))
    /\ pc' = IF Len(tasks') = Len(symbols) THEN "gather" ELSE "create"
    /\ UNCHANGED <<ols, monitor_vars, clock, finished, served, price_dict, printed,
                   branch, error, nfetch, ncalls>>

\* lines 75-80: the task opens its session and sends the request
TaskSend(i) ==
    /\ pc = "gather"
    /\ tasks[i].state = "scheduled"
    /\ tasks' = [tasks EXCEPT ![i].state = "requesting"]
    /\ UNCHANGED <<ols, monitor_vars, clock, pc, finished, served, price_dict, printed,
                   branch, error, nfetch, ncalls>>

\* line 80: the response arrives
TaskResponse(i, quote) ==
    /\ pc = "gather"
    /\ tasks[i].state = "requesting"
    /\ tasks' = [tasks EXCEPT ![i].state = "reading", ![i].price = quote]
    /\ served' = [s \in DOMAIN served \cup {tasks[i].symbol} |->
                    IF s = tasks[i].symbol THEN quote ELSE served[s]]
    /\ UNCHANGED <<ols, monitor_vars, clock, pc, finished, price_dict, printed,
                   branch, error, nfetch, ncalls>>

\* lines 81-82: the body is parsed and the task returns
TaskReturn(i) ==
    /\ pc = "gather"
    /\ tasks[i].state = "reading"
    /\ tasks' = [tasks EXCEPT ![i].state = "done"]
    /\ finished' = Append(finished, i)
    /\ UNCHANGED <<ols, monitor_vars, clock, pc, served, price_dict, printed,
                   branch, error, nfetch, ncalls>>

\* lines 75-82: the request, the JSON body, the 'price' key or float() raises
TaskFail(i) ==
    /\ pc = "gather"
    /\ tasks[i].state \in {"requesting", "reading"}
    /\ tasks' = [tasks EXCEPT ![i].state = "failed", ![i].price = None]
    /\ finished' = Append(finished, i)
    /\ UNCHANGED <<ols, monitor_vars, clock, pc, served, price_dict, printed,
                   branch, error, nfetch, ncalls>>

\* gather(..., return_exceptions=True): prices returns once every task has
\* ended, with the pairs of those that returned
GatherReturnExceptions ==
    /\ pc = "gather"
    /\ \A i \in DOMAIN tasks : tasks[i].state \in {"done", "failed"}
    /\ price_dict' = Dict(GatherResults(SelectSeq(tasks, LAMBDA t : t.state = "done")))
    /\ pc' = "check"
    /\ UNCHANGED <<ols, monitor_vars, clock, tasks, finished, served, printed,
                   branch, error, nfetch, ncalls>>

\* prices returns as soon as the first task is done
GatherReturnFirstCompleted ==
    /\ pc = "gather"
    /\ \E i \in DOMAIN tasks : tasks[i].state = "done"
    /\ price_dict' = Dict(GatherResults(tasks))
    /\ pc' = "check"
    /\ UNCHANGED <<ols, monitor_vars, clock, tasks, finished, served, printed,
                   branch, error, nfetch, ncalls>>

\* lines 93-94 and 108: every task is done, prices returns dict(results)
GatherReturn ==
    /\ pc = "gather"
    /\ \A i \in DOMAIN tasks : tasks[i].state = "done"
    /\ price_dict' = Dict(GatherResults(tasks))
    /\ pc' = "check"
    /\ UNCHANGED <<ols, monitor_vars, clock, tasks, finished, served, printed,
                   branch, error, nfetch, ncalls>>

\* line 93 and 106-108: gather raises the first exception of a task; prices and
\* asyncio.run pass it on (asyncio.run cancels the tasks still running); the
\* while loop has no handler, so the exception leaves the program.
GatherRaise ==
    /\ pc = "gather"
    /\ \E i \in DOMAIN tasks : tasks[i].state = "failed"
    /\ tasks' = [i \in DOMAIN tasks |->
                    IF tasks[i].state \in Running
                    THEN [tasks[i] EXCEPT !.state = "cancelled", !.price = None]
                    ELSE tasks[i]]
    /\ error' = "QuoteUnavailable"
    /\ pc' = "terminated"
    /\ UNCHANGED <<ols, monitor_vars, clock, finished, served, price_dict, printed,
                   branch, nfetch, ncalls>>

\* line 110: monitor.check_independent_movements(price_dict[...], price_dict[...])
Check ==
    /\ pc = "check"
    /\ check_independent_movements(price_dict[influence_symbol], price_dict[target_symbol])
    /\ pc' = "loop"
    /\ ncalls' = ncalls + 1
    /\ UNCHANGED <<ols, clock, tasks, finished, served, price_dict, error, nfetch>>

\* the wall clock advances
Tick(d) ==
    /\ pc # "terminated"
    /\ clock + d <= MaxClock
    /\ clock' = clock + d
    /\ UNCHANGED <<ols, monitor_vars, pc, tasks, finished, served, price_dict, printed,
                   branch, error, nfetch, ncalls>>

Next ==
    \/ StartFetch
    \/ CreateTask
    \/ \E i \in DOMAIN tasks : TaskSend(i)
    \/ \E i \in DOMAIN tasks : \E q \in Quotes : TaskResponse(i, q)
    \/ \E i \in DOMAIN tasks : TaskReturn(i)
    \/ \E i \in DOMAIN tasks : TaskFail(i)
    \/ GatherReturn
    \/ GatherRaise
    \/ Check
    \/ \E d \in TickSteps : Tick(d)

Spec == Init /\ [][Next]_vars

\* the program run on a monitor constructed with any arguments
SpecAnyArguments == InitAnyArguments /\ [][Next]_vars

\* A step of the program in a run where every request is answered with a
\* non-zero price: no task raises, so gather never raises either.
ProgramStepOnGoodSamples ==
    \/ StartFetch
    \/ CreateTask
    \/ \E i \in DOMAIN tasks : TaskSend(i)
    \/ \E i \in DOMAIN tasks : \E q \in Quotes \ {0} : TaskResponse(i, q)
    \/ \E i \in DOMAIN tasks : TaskReturn(i)
    \/ GatherReturn
    \/ Check

\* the wall clock advances
ClockStep == \E d \in TickSteps : Tick(d)

NextOnGoodSamples == ProgramStepOnGoodSamples \/ ClockStep

\* The while True loop of lines 106-110 always takes its next step, every
\* request is answered, and time passes, as far as the bounds let them.
SpecOnGoodSamples ==
    /\ Init
    /\ [][NextOnGoodSamples]_vars
    /\ WF_vars(ProgramStepOnGoodSamples)
    /\ WF_vars(ClockStep)

(* ============================== claims ================================ *)

\* this step is a check_independent_movements call (line 110)
CallMade == ncalls' = ncalls + 1

\* the call that is about to be made executes lines 40-62
Seeded == NotFirstRequest(last_influence_price, last_target_price)

\* total_independent_change after line 46 of the call that is about to be made
Accumulated ==
    total_independent_change
        + IndependentChange(ols, price_dict[influence_symbol], price_dict[target_symbol],
                            last_influence_price, last_target_price)

\* C1 (seeding): the first call on a freshly constructed monitor prints no
\* alert, leaves total_independent_change at 0 and reference_time unchanged,
\* and sets both previous prices to the sample it was given.
C1_Seeding ==
    [][(/\ CallMade
        /\ last_influence_price = None
        /\ last_target_price = None
        /\ total_independent_change = 0)
       => /\ printed' = NoAlert
          /\ total_independent_change' = 0
          /\ reference_time' = reference_time
          /\ last_influence_price' = price_dict[influence_symbol]
          /\ last_target_price' = price_dict[target_symbol]]_vars

\* the first call has been made with two different prices, one of them zero
C1_Witness ==
    /\ ncalls = 1
    /\ branch = "first"
    /\ last_influence_price = 101
    /\ last_target_price = 0
    /\ total_independent_change = 0
    /\ printed = NoAlert

C4_AlertCarriesPreResetValues ==
    [][(CallMade /\ printed' # NoAlert)
       => /\ Len(printed') = 1
          /\ printed'[1].minutes = [num |-> clock - reference_time, den |-> 60]
          /\ printed'[1].change = Accumulated
          /\ Abs(printed'[1].change) > max_change
          /\ printed'[1].change # 0
          /\ printed'[1].change # total_independent_change']_vars

\* an alert printed half a period after construction, for a drop of the target
C4_Witness ==
    /\ printed # NoAlert
    /\ printed[1].minutes.num = DefaultTimePeriod \div 2
    /\ printed[1].change < - max_change
    /\ reference_time = clock
    /\ total_independent_change = 0

\* C5 (tie-break): when the sum exceeds max_change and the window has expired
\* on the same call, exactly one message, the threshold alert, is printed and
\* the window is reset once.
C5_TieBreak ==
    [][(/\ CallMade
        /\ Seeded
        /\ Abs(Accumulated) > max_change
        /\ clock - reference_time > time_period)
       => /\ printed' = <<Message(clock - reference_time, Accumulated)>>
          /\ reference_time' = clock
          /\ total_independent_change' = 0]_vars

\* an alert has been printed for a window that had also expired
C5_Witness ==
    /\ Len(printed) = 1
    /\ printed[1].minutes.num > time_period
    /\ Abs(printed[1].change) > max_change
    /\ branch = "renew"
    /\ reference_time = clock

\* some task of the running fetch has raised
SomeTaskFailed == \E i \in DOMAIN tasks : tasks[i].state = "failed"

\* the set of tracked symbols (line 101)
Symbols == {symbols[i] : i \in DOMAIN symbols}

\* C6 (degenerate input): a call made while a recorded previous price is zero
\* surfaces a data-quality error; it is not skipped silently.
C6_DegenerateInputSurfaced ==
    [][(CallMade /\ (last_influence_price = 0 \/ last_target_price = 0))
       => error' # NoError]_vars

\* C7 (the loop survives a failed cycle): when a fetch fails, the loop goes on
\* to its next iteration and the monitor is left as it was.
C7_LoopSurvivesFailedCycle ==
    [][(pc = "gather" /\ pc' # "gather" /\ SomeTaskFailed)
       => (pc' = "loop" /\ UNCHANGED monitor_vars)]_vars

\* C8 (failure propagation): once a task has failed the fetch never returns a
\* mapping, whichever task failed and whatever the other tasks did; price_dict
\* is never a partial mapping, and the monitor is only called with both prices.
C8_FailurePropagation ==
    /\ SomeTaskFailed => pc \in {"gather", "terminated"}
    /\ pc = "terminated" => error = "QuoteUnavailable"
    /\ price_dict = NoDict \/ DOMAIN price_dict = Symbols
    /\ pc = "check" => /\ DOMAIN price_dict = Symbols
                       /\ \A s \in Symbols : price_dict[s] \in Quotes
                       /\ \A i \in DOMAIN tasks : tasks[i].state = "done"

\* in the second iteration the fetch of the influence symbol returned first,
\* then the fetch of the target symbol failed: the program ended with the
\* exception and price_dict still holds the complete first sample
C8_Witness ==
    /\ pc = "terminated"
    /\ nfetch = 2
    /\ ncalls = 1
    /\ tasks[1].state = "done"
    /\ tasks[2].state = "failed"
    /\ finished = <<1, 2>>
    /\ DOMAIN price_dict = Symbols
    /\ price_dict[influence_symbol] = last_influence_price
    /\ price_dict[target_symbol] = last_target_price

\* C9 (sequential hand-off): iteration N+1 is entered only after the call for
\* sample N has returned, and no task is running while the main thread is
\* between two fetches, in the monitor, or gone.
C9_SequentialHandOff ==
    /\ pc \in {"loop", "check", "terminated"}
          => \A i \in DOMAIN tasks : tasks[i].state \notin Running
    /\ pc \in {"create", "gather", "check"} => nfetch = ncalls + 1
    /\ pc = "loop" => nfetch = ncalls
    /\ pc = "terminated" => nfetch = ncalls + 1

\* the second sample is about to be evaluated: the first call has returned and
\* both tasks of the second fetch are done, the later-created one first
C9_Witness ==
    /\ pc = "check"
    /\ nfetch = 2
    /\ ncalls = 1
    /\ finished = <<2, 1>>
    /\ \A i \in DOMAIN tasks : tasks[i].state = "done"

\* C10 (fan-out / fan-in): every task is created before any task runs, prices
\* returns only when every task is done, and the mapping holds exactly the
\* input symbols, each with the price the service answered for that symbol.
C10_FanOutFanIn ==
    /\ pc = "create" => \A i \in DOMAIN tasks : tasks[i].state = "scheduled"
    /\ pc = "gather" => /\ Len(tasks) = Len(symbols)
                        /\ \A i \in DOMAIN tasks : tasks[i].symbol = symbols[i]
    /\ pc = "check" => /\ \A i \in DOMAIN tasks : tasks[i].state = "done"
                       /\ DOMAIN price_dict = Symbols
                       /\ \A s \in Symbols : price_dict[s] = served[s]

\* the target's fetch completed before the influence's, with different prices
C10_Witness ==
    /\ pc = "check"
    /\ finished = <<2, 1>>
    /\ served = [s \in Symbols |-> IF s = influence_symbol THEN 100 ELSE 101]
    /\ price_dict[influence_symbol] = 100
    /\ price_dict[target_symbol] = 101

\* C11 (configuration validation): a monitor with a non-positive time_period
\* or a non-positive max_change is never constructed; the constructor rejects
\* such arguments with a ConfigurationError.
C11_ConfigurationValidated ==
    \/ time_period > 0 /\ max_change > 0
    \/ error = "ConfigurationError" /\ pc = "terminated"

\* C12 (price pair): the two previous prices are both None or both set, and
\* after every call, whatever path it took, they are the influence and target
\* prices passed to that call; no other step touches them.
C12_PricePair ==
    /\ [](last_influence_price = None <=> last_target_price = None)
    /\ [][IF CallMade
          THEN /\ last_influence_price' = price_dict[influence_symbol]
               /\ last_target_price' = price_dict[target_symbol]
               /\ last_influence_price' # None
               /\ last_target_price' # None
          ELSE UNCHANGED <<last_influence_price, last_target_price>>]_vars

\* a window has just been renewed by the third call, on a sample with two
\* different prices that are now the previous prices
C12_Witness ==
    /\ ncalls = 3
    /\ pc = "loop"
    /\ branch = "renew"
    /\ price_dict[influence_symbol] = 100
    /\ price_dict[target_symbol] = 101
    /\ last_influence_price = 100
    /\ last_target_price = 101

\* C13 (reset exactly on window close): a call of the residual branch on which
\* neither the sum exceeds max_change nor the period has passed leaves
\* reference_time alone and adds its residual to the sum; one on which either
\* holds sets reference_time to now and the sum to 0; no other step changes
\* the two, and no step changes time_period or max_change.
C13_ResetExactlyOnClose ==
    [][/\ time_period' = time_period
       /\ max_change' = max_change
       /\ IF CallMade /\ Seeded
          THEN IF \/ Abs(Accumulated) > max_change
                  \/ clock - reference_time > time_period
               THEN /\ reference_time' = clock
                    /\ total_independent_change' = 0
               ELSE /\ reference_time' = reference_time
                    /\ total_independent_change' = Accumulated
          ELSE UNCHANGED <<reference_time, total_independent_change>>]_vars

\* a call made exactly time_period after reference_time whose sum is exactly
\* max_change has kept the window open
C13_Witness ==
    /\ pc = "loop"
    /\ branch = "accumulate"
    /\ total_independent_change = max_change
    /\ clock - reference_time = time_period
    /\ reference_time = 0

\* the percentage change from the previous to the new price, written out
PercentOfPrevious(new, previous) == ((new - previous) * 100 * Unit) \div previous

\* the division above is exact: no rounding is hidden in the model's units
ExactPercent(new, previous) == ((new - previous) * 100 * Unit) % previous = 0

\* what the call that is about to be made must add to the sum
ExpectedResidual ==
    LET target_change == PercentOfPrevious(price_dict[target_symbol], last_target_price)
        influence_change ==
            PercentOfPrevious(price_dict[influence_symbol], last_influence_price)
    IN  target_change - ((ols.num * influence_change) \div ols.den + ols.intercept)

\* C14 (residual correctness): on a call of the residual branch the amount
\* added to the sum is target_change - predict(influence_change), both changes
\* taken relative to the previous sample; the amount is seen in the sum when
\* the window stays open and in the alert when it is closed by a breach.  A
\* call with the prices of the previous sample adds exactly -predict(0), the
\* negated intercept.
C14_ResidualCorrectness ==
    [][(CallMade /\ Seeded)
       => /\ ExactPercent(price_dict[target_symbol], last_target_price)
          /\ ExactPercent(price_dict[influence_symbol], last_influence_price)
          /\ (ols.num * PercentOfPrevious(price_dict[influence_symbol],
                                          last_influence_price)) % ols.den = 0
          /\ branch' = "accumulate"
                => total_independent_change' - total_independent_change
                       = ExpectedResidual
          /\ printed' # NoAlert
                => printed'[1].change - total_independent_change = ExpectedResidual
          /\ (/\ price_dict[target_symbol] = last_target_price
              /\ price_dict[influence_symbol] = last_influence_price
              /\ branch' = "accumulate")
                => total_independent_change' - total_independent_change
                       = - ols.intercept]_vars

\* with the predictor 0.5 x + 0.1, the second and third calls repeated the
\* first sample: the sum is -0.2 %, twice the negated intercept
C14_Witness ==
    /\ ncalls = 3
    /\ branch = "accumulate"
    /\ ols.intercept = Unit \div 10
    /\ last_influence_price = 100
    /\ last_target_price = 101
    /\ total_independent_change = - 2 * (Unit \div 10)

\* the current window is older than time_period
Expired == clock - reference_time > time_period

\* a call of the residual branch is still to come within the explored iterations
SeededCallAhead ==
    /\ Seeded
    /\ \/ pc \in {"create", "gather", "check"}
       \/ pc = "loop" /\ nfetch < MaxCalls

C16_BoundedDrift == Abs(total_independent_change) <= max_change

\* the third call has found the sum beyond the threshold, printed it and
\* returned with the sum at 0
C16_Witness ==
    /\ pc = "loop"
    /\ ncalls = 3
    /\ printed # NoAlert
    /\ Abs(printed[1].change) > max_change
    /\ printed[1].minutes.num <= time_period
    /\ total_independent_change = 0

\* C17 (bounded staleness): when a call that executed the residual branch
\* returns, its now is at most time_period after reference_time.
C17_BoundedStaleness ==
    [][(CallMade /\ Seeded) => clock - reference_time' <= time_period]_vars

\* the second call has found the window one second too old and renewed it
\* without printing
C17_Witness ==
    /\ pc = "loop"
    /\ ncalls = 2
    /\ branch = "renew"
    /\ printed = NoAlert
    /\ clock = DefaultTimePeriod + 1
    /\ reference_time = clock

====
